---- MODULE Spec2Model ----
(***************************************************************************)
(* Voter-register OCR: the two page pipelines (ocr_page_fast.py,           *)
(* ocr_page_python.py) and the decoupled parser (parse_ocr.py).            *)
(*                                                                         *)
(* Text is a sequence of one-character strings.  The recognition engine    *)
(* is an input: what it returns for a tile's sub-region is fixed by the    *)
(* page content chosen in the initial state.                               *)
(***************************************************************************)
EXTENDS Integers, Sequences, FiniteSets, TLC

(* ------------------------------------------------------------------ *)
(* Grid geometry (module constants of both page pipelines)            *)
(* ------------------------------------------------------------------ *)
GRID_COLS == 3
GRID_ROWS == 10
RECORD_WIDTH == 298
RECORD_HEIGHT == 121
START_X == 22
START_Y == 42
GAP_X == 5
GAP_Y == 5

(* Thresholds of the validity rules and the external-call timeout *)
MIN_EPIC_LEN == 6
MIN_TEXT_LEN == 20
MIN_SERIAL_LEN == 1

(* ------------------------------------------------------------------ *)
(* Bounds of the model                                                *)
(* ------------------------------------------------------------------ *)
\* pages are drawn at each column/row boundary, one pixel short of it, and
\* up to Slack pixels beyond the full grid footprint
Slack == 1
\* the recognition failure, when there is one, hits a tile numbered 0..MaxFailTile
MaxFailTile == 1
\* the status files of a page are record_00.status .. record_<MaxRecordId>.status,
\* or any subset of them
MaxRecordId == 2
\* the page directories of one process_directory run hold at most MaxDirFiles
\* status files together
MaxDirFiles == 3
\* clean_text is applied to every text of up to MaxCleanLen characters
MaxCleanLen == 5
\* os.cpu_count() is drawn from 1..MaxWorkers
MaxWorkers == 3
\* pages with more than MaxParallelTiles in-bounds tiles are run on one worker
\* (and so are pages with none, which start no worker, and pages larger than
\* the grid footprint)
MaxParallelTiles == 2

(* ------------------------------------------------------------------ *)
(* Strings                                                            *)
(* ------------------------------------------------------------------ *)
DigitChars == <<"0", "1", "2", "3", "4", "5", "6", "7", "8", "9">>

Digit(d) == DigitChars[d + 1]

\* str(n) for n >= 0
RECURSIVE ToDigits(_)
ToDigits(n) == IF n < 10 THEN <<Digit(n)>> ELSE ToDigits(n \div 10) \o <<Digit(n % 10)>>

\* f"{n:02d}"
Format02d(n) == IF n < 10 THEN <<"0", Digit(n)>> ELSE ToDigits(n)

DigitValue(c) == CHOOSE d \in 0..9 : DigitChars[d + 1] = c

IsDigit(c) == \E d \in 0..9 : DigitChars[d + 1] = c

\* int(s) for a non-empty string of ASCII digits
RECURSIVE ParseInt(_)
ParseInt(s) ==
    IF Len(s) = 0 THEN 0
    ELSE 10 * ParseInt(SubSeq(s, 1, Len(s) - 1)) + DigitValue(s[Len(s)])

Whitespace == {" ", "\t", "\n"}

RECURSIVE LStrip(_)
LStrip(s) == IF Len(s) > 0 /\ s[1] \in Whitespace THEN LStrip(Tail(s)) ELSE s

RECURSIVE RStrip(_)
RStrip(s) ==
    IF Len(s) > 0 /\ s[Len(s)] \in Whitespace THEN RStrip(SubSeq(s, 1, Len(s) - 1)) ELSE s

\* str.strip()
Strip(s) == RStrip(LStrip(s))

Rep(c, n) == [i \in 1..n |-> c]

(* ------------------------------------------------------------------ *)
(* Segmentation                                                       *)
(* ------------------------------------------------------------------ *)
RecordNum(r, c) == r * GRID_COLS + c

TileX_nogap(c) == START_X + c * RECORD_WIDTH

TileX(c) == START_X + c * (RECORD_WIDTH + GAP_X)

TileY(r) == START_Y + r * (RECORD_HEIGHT + GAP_Y)

OutOfBounds_strict(x, y, w, h) == x + RECORD_WIDTH >= w \/ y + RECORD_HEIGHT >= h

\* the bounds check of both segmentation loops
OutOfBounds(x, y, w, h) == x + RECORD_WIDTH > w \/ y + RECORD_HEIGHT > h

RecordBox(x, y) == <<x, y, x + RECORD_WIDTH, y + RECORD_HEIGHT>>

\* one in-bounds tile as the loop sees it
Tile(r, c) ==
    [record_id |-> Format02d(RecordNum(r, c)), row |-> r, col |-> c,
     x |-> TileX(c), y |-> TileY(r), box |-> RecordBox(TileX(c), TileY(r))]

Regions == <<"serial", "epic", "text">>

RegionSet == {"serial", "epic", "text"}

(* ------------------------------------------------------------------ *)
(* The page and the recognition engine (inputs)                       *)
(* ------------------------------------------------------------------ *)
FullWidth == START_X + (GRID_COLS - 1) * (RECORD_WIDTH + GAP_X) + RECORD_WIDTH

FullHeight == START_Y + (GRID_ROWS - 1) * (RECORD_HEIGHT + GAP_Y) + RECORD_HEIGHT

\* widths at which a column goes in or out of bounds, and beyond the footprint
Widths ==
    {START_X + RECORD_WIDTH + d : d \in {-1, 0}}
        \cup {FullWidth + d : d \in -1..Slack}

Heights ==
    {START_Y + RECORD_HEIGHT + d : d \in {-1, 0}}
        \cup {FullHeight + d : d \in -1..Slack}

\* what is printed in tile n: which of its sub-regions are legible
ContentKinds ==
    << [serial |-> TRUE,  epic |-> TRUE,  text |-> TRUE],
       [serial |-> TRUE,  epic |-> FALSE, text |-> TRUE],
       [serial |-> TRUE,  epic |-> TRUE,  text |-> FALSE],
       [serial |-> TRUE,  epic |-> FALSE, text |-> FALSE],
       [serial |-> FALSE, epic |-> TRUE,  text |-> TRUE] >>

ContentOf(n) == ContentKinds[(n % Len(ContentKinds)) + 1]

\* the engine's raw output for a sub-region of tile n (before any strip):
\* a legible serial reads n+1, a legible EPIC has exactly MIN_EPIC_LEN
\* characters and a legible text block exactly MIN_TEXT_LEN; an illegible
\* one is one character short (the serial: blank)
EngineText(n, region) ==
    CASE region = "serial" ->
            IF ContentOf(n).serial THEN ToDigits(n + 1) \o <<"\n">> ELSE <<" ", "\n">>
      [] region = "epic" ->
            (IF ContentOf(n).epic THEN Rep("A", MIN_EPIC_LEN - 2) ELSE Rep("A", MIN_EPIC_LEN - 3))
                \o Format02d(n) \o <<"\n">>
      [] OTHER ->
            (IF ContentOf(n).text THEN Rep("x", MIN_TEXT_LEN - 3) ELSE Rep("x", MIN_TEXT_LEN - 4))
                \o <<" ">> \o Format02d(n) \o <<"\n", "\n">>

NoFail == [tile |-> -1, region |-> "none", kind |-> "none"]

\* the recognition engine is not installed (no binary or no language data):
\* it can be neither initialized nor invoked, for any sub-region of any tile
MissingEngine == [tile |-> -1, region |-> "none", kind |-> "missing"]

\* a failure of the environment at one sub-region of one tile of the page:
\*   "raise":   the recognition call raises (engine error, subprocess error)
\*   "timeout": the external recognizer runs longer than the timeout of
\*              subprocess.run, which raises TimeoutExpired
\*   "rc":      the external recognizer exits non-zero, leaving its output file empty
\*   "crop":    cropping or saving the sub-image raises
Failures(kinds) ==
    {NoFail, MissingEngine} \cup [tile : 0..MaxFailTile, region : RegionSet, kind : kinds]

Fails(f, n, region, kind) == f.tile = n /\ f.region = region /\ f.kind = kind

(* ------------------------------------------------------------------ *)
(* State                                                              *)
(* ------------------------------------------------------------------ *)
VARIABLES
    pipeline,     \* "fast" | "pool": which script runs on the page
    width,        \* img.width
    height,       \* img.height
    fail,         \* the environment failure of this run (input)
    has_tesserocr, \* ocr_page_fast: HAS_TESSEROCR, whether tesserocr could be imported
    ocr_engine,   \* ocr_page_fast: the FastOCR instance of process_page
    cpu_count,    \* os.cpu_count()
    pc,           \* position of process_page
    row, col,     \* loop position of the segmentation loop
    boxes,        \* tiles that passed the bounds check, in visiting order
    records,      \* ocr_page_python: list returned by extract_record_regions
    ocr_tasks,    \* ocr_page_python: tasks submitted to the pool
    next_task,    \* index of the next task a free worker takes
    running,      \* indices of the tasks being executed by workers
    returned,     \* results the tasks have returned so far
    out_of_order, \* a result was delivered before that of an earlier task
    ocr_results,  \* ocr_page_python: record_id -> region type -> text
    csv_records,  \* rows in emission order
    valid_count,
    out,          \* the CSV file: whether written, with a header row, and its rows
    strict_mode,  \* VoterParser.strict_mode
    stats,        \* VoterParser.stats
    tile_call,    \* the last parse_tile call: its input and what it returned
    clean_call,   \* a text, clean_text applied to it repeatedly, parse_tile of both
    page_id,      \* VoterParser.process_page: its page_id argument
    status_files, \* VoterParser.process_page: the sorted status files of the page
    idx,          \* number of status files processed so far
    page_records, \* VoterParser.process_page: records
    last,         \* the last status file processed: what was read and what was done
    page_dirs,    \* VoterParser.process_directory: the sorted page directories
    page_no,      \* number of page directories processed so far
    all_records   \* VoterParser.process_directory: all_records

vars == <<pipeline, width, height, fail, has_tesserocr, ocr_engine, cpu_count, pc, row, col, boxes, records,
          ocr_tasks, next_task, running, returned, out_of_order, ocr_results,
          csv_records, valid_count, out, strict_mode, stats, tile_call, clean_call, page_id,
          status_files, idx, page_records, last, page_dirs, page_no, all_records>>

dirVars == <<page_dirs, page_no, all_records>>

parserVars == <<strict_mode, stats, tile_call, clean_call, page_id, status_files, idx,
                page_records, last, dirVars>>

inputs == <<pipeline, width, height, fail, has_tesserocr, cpu_count, parserVars>>

poolVars == <<records, ocr_tasks, next_task, running, returned, out_of_order, ocr_results>>

\* number of tiles of the grid that fit a w x h page
TileCount(w, h) ==
    Cardinality({rc \in (0..GRID_ROWS - 1) \X (0..GRID_COLS - 1) :
                    ~OutOfBounds(TileX(rc[2]), TileY(rc[1]), w, h)})

\* process_page has not started on the page
PageAtStart ==
    /\ row = 0
    /\ col = 0
    /\ boxes = <<>>
    /\ records = <<>>
    /\ ocr_tasks = <<>>
    /\ next_task = 1
    /\ running = {}
    /\ returned = {}
    /\ out_of_order = FALSE
    /\ ocr_results = <<>>
    /\ csv_records = <<>>
    /\ valid_count = 0
    /\ out = [written |-> FALSE, header |-> FALSE, rows |-> <<>>]

\* clean_text has not been applied to anything
NoCleanCall == [text |-> <<>>, passes |-> <<>>, parsed |-> <<>>]

\* VoterParser.__init__: the counters
NewStats == [total_tiles |-> 0, valid_records |-> 0, invalid_records |-> 0, skipped_tiles |-> 0]

\* no parser runs
ParserIdle ==
    /\ strict_mode = FALSE
    /\ stats = NewStats
    /\ tile_call = [called |-> FALSE]
    /\ clean_call = NoCleanCall
    /\ page_id = <<>>
    /\ status_files = <<>>
    /\ idx = 0
    /\ page_records = <<>>
    /\ last = [processed |-> FALSE]
    /\ page_dirs = <<>>
    /\ page_no = 0
    /\ all_records = <<>>

InitPage ==
    /\ pipeline \in {"fast", "pool"}
    /\ ParserIdle
    /\ width \in Widths
    /\ height \in Heights
    /\ fail \in IF pipeline = "fast" THEN Failures({"raise", "crop"})
                ELSE Failures({"raise", "timeout", "rc", "crop"})
    /\ has_tesserocr \in BOOLEAN
    /\ pipeline = "pool" => has_tesserocr = FALSE
    /\ ocr_engine = "none"
    /\ cpu_count \in 1..MaxWorkers
    /\ pipeline = "fast" => cpu_count = 1
    /\ TileCount(width, height) \notin 1..MaxParallelTiles => cpu_count = 1
    /\ width > FullWidth \/ height > FullHeight => cpu_count = 1
    /\ fail.tile >= 0 =>
          ~OutOfBounds(TileX(fail.tile % GRID_COLS), TileY(fail.tile \div GRID_COLS),
                       width, height)
    /\ pc = "loop"
    /\ PageAtStart

\* the loop position after (r, c) in row-major order
NextRow(r, c) == IF c + 1 = GRID_COLS THEN r + 1 ELSE r

NextCol(r, c) == IF c + 1 = GRID_COLS THEN 0 ELSE c + 1

(* ------------------------------------------------------------------ *)
(* ocr_page_fast.py                                                   *)
(* ------------------------------------------------------------------ *)
\* FastOCR.ocr_serial / ocr_epic / ocr_text
FastOcr(n, region) == Strip(EngineText(n, region))

\* the try block of process_page: serial, epic and text are recognized in
\* this order; an exception anywhere (a crop that fails, an engine error,
\* the pytesseract fallback not finding its binary) blanks all three
FastRecognize(n, f) ==
    IF \/ \E region \in RegionSet : Fails(f, n, region, "raise") \/ Fails(f, n, region, "crop")
       \/ f = MissingEngine
    THEN [serial |-> <<>>, epic |-> <<>>, text |-> <<>>]
    ELSE [serial |-> FastOcr(n, "serial"), epic |-> FastOcr(n, "epic"),
          text |-> FastOcr(n, "text")]

FastIsValid(epic, text) == Len(epic) >= MIN_EPIC_LEN \/ Len(text) >= MIN_TEXT_LEN

FastRow(r, c, f) ==
    LET rec == FastRecognize(RecordNum(r, c), f)
    IN  [record_id |-> Format02d(RecordNum(r, c)), row |-> r, col |-> c,
         serial |-> rec.serial, epic |-> rec.epic, raw_text |-> rec.text,
         valid |-> FastIsValid(rec.epic, rec.text)]

\* FastOCR(): with tesserocr the constructor locates the language data and
\* creates the three APIs, and raises when it cannot; the exception leaves
\* process_page before the image is opened (main reports it and exits).
\* The pytesseract fallback constructs nothing and cannot fail here.
FastInit ==
    /\ pipeline = "fast" /\ pc = "loop" /\ ocr_engine = "none"
    /\ ocr_engine' = IF has_tesserocr /\ fail = MissingEngine THEN "failed" ELSE "ready"
    /\ UNCHANGED <<inputs, pc, row, col, boxes, poolVars, csv_records, valid_count, out>>

\* one iteration of the segmentation loop
FastTile ==
    /\ pipeline = "fast" /\ pc = "loop" /\ row < GRID_ROWS /\ ocr_engine = "ready"
    /\ row' = NextRow(row, col)
    /\ col' = NextCol(row, col)
    /\ IF OutOfBounds(TileX(col), TileY(row), width, height)
       THEN UNCHANGED <<boxes, csv_records, valid_count>>
       ELSE /\ boxes' = Append(boxes, Tile(row, col))
            /\ csv_records' = Append(csv_records, FastRow(row, col, fail))
            /\ valid_count' = valid_count + (IF FastRow(row, col, fail).valid THEN 1 ELSE 0)
    /\ UNCHANGED <<inputs, ocr_engine, pc, poolVars, out>>

\* after the loop: the CSV is opened for writing; header and rows are
\* written only when there are rows
FastWrite ==
    /\ pipeline = "fast" /\ pc = "loop" /\ row = GRID_ROWS /\ ocr_engine = "ready"
    /\ out' = [written |-> TRUE, header |-> csv_records # <<>>, rows |-> csv_records]
    /\ pc' = "done"
    /\ UNCHANGED <<inputs, ocr_engine, row, col, boxes, poolVars, csv_records, valid_count>>

(* ------------------------------------------------------------------ *)
(* ocr_page_python.py                                                 *)
(* ------------------------------------------------------------------ *)
\* the file a sub-image is saved to: record_<record_id>_<region>.png
ImagePath(record_id, region) == [record_id |-> record_id, region |-> region]

\* record_data of an in-bounds tile whose three sub-images were saved
RecordData(r, c) ==
    [record_id |-> Format02d(RecordNum(r, c)), row |-> r, col |-> c,
     x |-> TileX(c), y |-> TileY(r),
     serial_path |-> ImagePath(Format02d(RecordNum(r, c)), "serial"),
     epic_path |-> ImagePath(Format02d(RecordNum(r, c)), "epic"),
     text_path |-> ImagePath(Format02d(RecordNum(r, c)), "text")]

\* one iteration of the loop of extract_record_regions: a tile out of
\* bounds is skipped; a tile whose crop or save raises is dropped
ExtractTile ==
    /\ pipeline = "pool" /\ pc = "loop" /\ row < GRID_ROWS
    /\ row' = NextRow(row, col)
    /\ col' = NextCol(row, col)
    /\ IF OutOfBounds(TileX(col), TileY(row), width, height)
       THEN UNCHANGED <<boxes, records>>
       ELSE /\ boxes' = Append(boxes, Tile(row, col))
            /\ IF \E region \in RegionSet : Fails(fail, RecordNum(row, col), region, "crop")
               THEN UNCHANGED records
               ELSE records' = Append(records, RecordData(row, col))
    /\ UNCHANGED <<inputs, ocr_engine, pc, ocr_tasks, next_task, running, returned,
                   out_of_order, ocr_results, csv_records, valid_count, out>>

\* one entry of ocr_tasks
Task(rec, region) ==
    [type |-> region,
     path |-> CASE region = "serial" -> rec.serial_path
                [] region = "epic" -> rec.epic_path
                [] OTHER -> rec.text_path,
     record_id |-> rec.record_id]

\* ocr_tasks: serial, epic, text of each record, in record order
TasksOf(recs) ==
    [i \in 1..3 * Len(recs) |-> Task(recs[((i - 1) \div 3) + 1], Regions[((i - 1) % 3) + 1])]

\* the tasks the executor hands to its workers first
FirstRunning(n, workers) == {i \in 1..n : i <= workers}

\* process_page up to the submission of the tasks; with no record it returns
PoolSubmit ==
    /\ pipeline = "pool" /\ pc = "loop" /\ row = GRID_ROWS
    /\ IF records = <<>>
       THEN /\ pc' = "done"
            /\ UNCHANGED <<ocr_tasks, next_task, running>>
       ELSE /\ pc' = "collect"
            /\ ocr_tasks' = TasksOf(records)
            /\ running' = FirstRunning(3 * Len(records), cpu_count)
            /\ next_task' = Cardinality(FirstRunning(3 * Len(records), cpu_count)) + 1
    /\ UNCHANGED <<inputs, ocr_engine, row, col, boxes, records, returned, out_of_order,
                   ocr_results, csv_records, valid_count, out>>

\* ocr_region with subprocess.run given no timeout: the slow call returns
OcrRegion_notimeout(task, f) ==
    LET n == ParseInt(task.path.record_id)
        region == task.path.region
    IN  IF Fails(f, n, region, "raise") \/ f = MissingEngine
        THEN [record_id |-> task.record_id, type |-> task.type, text |-> <<>>,
              success |-> FALSE]
        ELSE [record_id |-> task.record_id, type |-> task.type,
              text |-> IF Fails(f, n, region, "rc") THEN Strip(<<>>)
                       ELSE Strip(EngineText(n, region)),
              success |-> ~Fails(f, n, region, "rc")]

\* ocr_region: the recognizer runs on the image at task.path; any exception
\* (TimeoutExpired of subprocess.run and the FileNotFoundError of a missing
\* binary included) is caught and gives empty text
OcrRegion(task, f) ==
    LET n == ParseInt(task.path.record_id)
        region == task.path.region
    IN  IF Fails(f, n, region, "raise") \/ Fails(f, n, region, "timeout") \/ f = MissingEngine
        THEN [record_id |-> task.record_id, type |-> task.type, text |-> <<>>,
              success |-> FALSE]
        ELSE [record_id |-> task.record_id, type |-> task.type,
              text |-> IF Fails(f, n, region, "rc") THEN Strip(<<>>)
                       ELSE Strip(EngineText(n, region)),
              success |-> ~Fails(f, n, region, "rc")]

Store_bytype(results, res) ==
    [id \in DOMAIN results \cup {res.record_id} |-> (res.type :> res.text)]

\* ocr_results[record_id][region_type] = result['text']
Store(results, res) ==
    [id \in DOMAIN results \cup {res.record_id} |->
        IF id = res.record_id
        THEN (IF id \in DOMAIN results
              THEN [t \in DOMAIN results[id] \cup {res.type} |->
                        IF t = res.type THEN res.text ELSE results[id][t]]
              ELSE (res.type :> res.text))
        ELSE results[id]]

\* ocr_results.get(record_id, {}).get(region, '')
Get(results, record_id, region) ==
    IF record_id \in DOMAIN results /\ region \in DOMAIN results[record_id]
    THEN results[record_id][region]
    ELSE <<>>

\* as_completed yields the result of any task a worker is running; the
\* worker then takes the next task waiting
PoolComplete(t) ==
    /\ pipeline = "pool" /\ pc = "collect" /\ t \in running
    /\ returned' = returned \cup {OcrRegion(ocr_tasks[t], fail)}
    /\ out_of_order' = (out_of_order \/ \E u \in running : u < t)
    /\ ocr_results' = Store(ocr_results, OcrRegion(ocr_tasks[t], fail))
    /\ IF next_task <= Len(ocr_tasks)
       THEN /\ running' = (running \ {t}) \cup {next_task}
            /\ next_task' = next_task + 1
       ELSE /\ running' = running \ {t}
            /\ UNCHANGED next_task
    /\ UNCHANGED <<inputs, ocr_engine, pc, row, col, boxes, records, ocr_tasks, csv_records,
                   valid_count, out>>

PoolIsValid(serial, epic, text) ==
    Len(serial) >= MIN_SERIAL_LEN /\ Len(epic) >= MIN_EPIC_LEN /\ Len(text) >= MIN_TEXT_LEN

PoolRow(rec, results) ==
    LET serial == Strip(Get(results, rec.record_id, "serial"))
        epic == Strip(Get(results, rec.record_id, "epic"))
        text == Strip(Get(results, rec.record_id, "text"))
    IN  [record_id |-> rec.record_id, row |-> rec.row, col |-> rec.col,
         serial |-> serial, epic |-> epic, raw_text |-> text,
         valid |-> PoolIsValid(serial, epic, text)]

\* the rows, one per record, in the order of records
RowsOf(recs, results) == [i \in 1..Len(recs) |-> PoolRow(recs[i], results)]

\* every future has completed: the rows are assembled and the CSV is written
PoolAssemble ==
    /\ pipeline = "pool" /\ pc = "collect" /\ running = {}
    /\ csv_records' = RowsOf(records, ocr_results)
    /\ valid_count' = Cardinality({i \in 1..Len(records) : RowsOf(records, ocr_results)[i].valid})
    /\ out' = [written |-> TRUE, header |-> RowsOf(records, ocr_results) # <<>>,
               rows |-> RowsOf(records, ocr_results)]
    /\ pc' = "done"
    /\ UNCHANGED <<inputs, ocr_engine, row, col, boxes, poolVars>>

NextPage ==
    \/ FastInit
    \/ FastTile
    \/ FastWrite
    \/ ExtractTile
    \/ PoolSubmit
    \/ \E t \in running : PoolComplete(t)
    \/ PoolAssemble

SpecPage == InitPage /\ [][NextPage]_vars

(* ------------------------------------------------------------------ *)
(* parse_ocr.py: characters and regular expressions                   *)
(* ------------------------------------------------------------------ *)
\* Devanagari code points of the field labels, one string per code point
Dev ==
    [NA |-> "dNA", RA |-> "dRA", VA |-> "dVA", CA |-> "dCA",
     KA |-> "dKA", MA |-> "dMA", U |-> "dU", LA |-> "dLA",
     GA |-> "dGA", SA |-> "dSA", KHA |-> "dKHA", YA |-> "dYA",
     PA |-> "dPA", TA |-> "dTA", SignI |-> "dSignI", SignAA |-> "dSignAA",
     Virama |-> "dVirama", Anusvara |-> "dAnusvara"]

DevLetters ==
    {Dev.NA, Dev.RA, Dev.VA, Dev.CA, Dev.KA, Dev.MA, Dev.U, Dev.LA, Dev.GA, Dev.SA, Dev.KHA,
     Dev.YA, Dev.PA, Dev.TA}

UpperChars ==
    {"A", "B", "C", "D", "E", "F", "G", "H", "I", "J", "K", "L", "M",
     "N", "O", "P", "Q", "R", "S", "T", "U", "V", "W", "X", "Y", "Z"}

LowerChars ==
    {"a", "b", "c", "d", "e", "f", "g", "h", "i", "j", "k", "l", "m",
     "n", "o", "p", "q", "r", "s", "t", "u", "v", "w", "x", "y", "z"}

\* \w: alphanumeric code points and the underscore (vowel signs, virama
\* and anusvara are combining marks, not word characters)
IsWordChar(c) == c \in UpperChars \cup LowerChars \cup DevLetters \cup {"_"} \/ IsDigit(c)

\* \b at position i: between text[i-1] and text[i]
Boundary(text, i) ==
    (i > 1 /\ i - 1 <= Len(text) /\ IsWordChar(text[i - 1]))
        # (i >= 1 /\ i <= Len(text) /\ IsWordChar(text[i]))

\* the words of the labels
W_NIRVACHAK == <<Dev.NA, Dev.SignI, Dev.RA, Dev.Virama, Dev.VA, Dev.SignAA, Dev.CA, Dev.KA>>
W_KA == <<Dev.KA, Dev.SignAA>>
W_NAAM == <<Dev.NA, Dev.SignAA, Dev.MA>>
W_UMR == <<Dev.U, Dev.MA, Dev.Virama, Dev.RA>>
W_LING == <<Dev.LA, Dev.SignI, Dev.Anusvara, Dev.GA>>
W_MAKAN == <<Dev.MA, Dev.KA, Dev.SignAA, Dev.NA>>
W_SANKHYA == <<Dev.SA, Dev.Anusvara, Dev.KHA, Dev.Virama, Dev.YA, Dev.SignAA>>
W_PATI == <<Dev.PA, Dev.TA, Dev.SignI>>
W_PITA == <<Dev.PA, Dev.SignI, Dev.TA, Dev.SignAA>>
W_MATA == <<Dev.MA, Dev.SignAA, Dev.TA, Dev.SignAA>>

\* the position after the longest run of characters of cls starting at p
RECURSIVE SkipClass(_, _, _)
SkipClass(text, p, cls) ==
    IF p <= Len(text) /\ text[p] \in cls THEN SkipClass(text, p + 1, cls) ELSE p

\* the position after the literal w at position i, or 0
MatchWord(text, i, w) ==
    IF i >= 1 /\ i + Len(w) - 1 <= Len(text) /\ SubSeq(text, i, i + Len(w) - 1) = w
    THEN i + Len(w) ELSE 0

\* w1 \s* w2 \s* ... wk at position i: the position after wk, or 0
RECURSIVE MatchWords(_, _, _)
MatchWords(text, i, words) ==
    LET p == MatchWord(text, i, Head(words))
    IN  IF p = 0 THEN 0
        ELSE IF Len(words) = 1 THEN p
        ELSE MatchWords(text, SkipClass(text, p, Whitespace), Tail(words))

\* one of the alternative label phrases at position i (tried in order)
RECURSIVE MatchLabel(_, _, _)
MatchLabel(text, i, labels) ==
    IF labels = <<>> THEN 0
    ELSE IF MatchWords(text, i, Head(labels)) # 0 THEN MatchWords(text, i, Head(labels))
    ELSE MatchLabel(text, i, Tail(labels))

\* the last position of the line that position p is on
LineEnd(text, p) ==
    CHOOSE e \in p..Len(text) :
        /\ \A k \in p + 1..e : text[k] # "\n"
        /\ e = Len(text) \/ text[e + 1] = "\n"

SetMax(S) == CHOOSE m \in S : \A k \in S : k <= m

SetMin(S) == CHOOSE m \in S : \A k \in S : m <= k

NoMatch == [matched |-> FALSE, group |-> <<>>]

\* [\s:]*([^\n]+) at position p: the separator run is greedy and gives
\* characters back until the group can start on a character that is no
\* line break
CaptureLine(text, p) ==
    LET q == SkipClass(text, p, Whitespace \cup {":"})
        starts == {k \in p..q : k <= Len(text) /\ text[k] # "\n"}
    IN  IF starts = {} THEN NoMatch
        ELSE [matched |-> TRUE,
              group |-> SubSeq(text, SetMax(starts), LineEnd(text, SetMax(starts)))]

\* the number of digits, at most n, starting at position p
RECURSIVE DigitRun(_, _, _)
DigitRun(text, p, n) ==
    IF n > 0 /\ p <= Len(text) /\ IsDigit(text[p]) THEN 1 + DigitRun(text, p + 1, n - 1) ELSE 0

\* [\s:]*([0-9]{1,3}) at position p
CaptureAge(text, p) ==
    LET q == SkipClass(text, p, Whitespace \cup {":"})
    IN  IF DigitRun(text, q, 3) >= 1
        THEN [matched |-> TRUE, group |-> SubSeq(text, q, q + DigitRun(text, q, 3) - 1)]
        ELSE NoMatch

\* re.search of <label>[\s:]*([^\n]+): the leftmost position where the
\* whole pattern matches
SearchLabelled(text, labels) ==
    LET hits == {i \in 1..Len(text) :
                    MatchLabel(text, i, labels) # 0
                    /\ CaptureLine(text, MatchLabel(text, i, labels)).matched}
    IN  IF hits = {} THEN NoMatch ELSE CaptureLine(text, MatchLabel(text, SetMin(hits), labels))

\* re.search of <label>[\s:]*([0-9]{1,3})
SearchAge(text) ==
    LET hits == {i \in 1..Len(text) :
                    MatchWords(text, i, <<W_UMR>>) # 0
                    /\ CaptureAge(text, MatchWords(text, i, <<W_UMR>>)).matched}
    IN  IF hits = {} THEN NoMatch ELSE CaptureAge(text, MatchWords(text, SetMin(hits), <<W_UMR>>))

\* \b([0-9]{lo,hi})\b at position i: the longest digit count that ends on a
\* word boundary
DigitsAt(text, i, lo, hi) ==
    LET lens == {d \in lo..hi :
                    /\ DigitRun(text, i, d) = d
                    /\ Boundary(text, i + d)}
    IN  IF Boundary(text, i) /\ lens # {}
        THEN [matched |-> TRUE, group |-> SubSeq(text, i, i + SetMax(lens) - 1)]
        ELSE NoMatch

\* re.search of \b([0-9]{1,4})\b
SearchSerial(text) ==
    LET hits == {i \in 1..Len(text) : DigitsAt(text, i, 1, 4).matched}
    IN  IF hits = {} THEN NoMatch ELSE DigitsAt(text, SetMin(hits), 1, 4)

\* [A-Z]{3} at position i; under re.IGNORECASE lower case matches too
Letters3(text, i, ignorecase) ==
    /\ i >= 1 /\ i + 2 <= Len(text)
    /\ \A k \in i..i + 2 :
          text[k] \in UpperChars \/ (ignorecase /\ text[k] \in LowerChars)

\* \b([A-Z]{3}[0-9]{6,7})\b at position i, under re.IGNORECASE
EpicAt(text, i) ==
    LET lens == {d \in 6..7 : DigitRun(text, i + 3, d) = d /\ Boundary(text, i + 3 + d)}
    IN  IF Boundary(text, i) /\ Letters3(text, i, TRUE) /\ lens # {}
        THEN [matched |-> TRUE, group |-> SubSeq(text, i, i + 2 + SetMax(lens))]
        ELSE NoMatch

SearchEpic(text) ==
    LET hits == {i \in 1..Len(text) : EpicAt(text, i).matched}
    IN  IF hits = {} THEN NoMatch ELSE EpicAt(text, SetMin(hits))

\* extract_field: group 1 of the first match, stripped; "" without a match
ExtractField(m) == IF m.matched THEN Strip(m.group) ELSE <<>>

EpicFormatOk_ignorecase(epic) ==
    /\ Len(epic) \in 9..10
    /\ Letters3(epic, 1, TRUE)
    /\ DigitRun(epic, 4, 7) = Len(epic) - 3

\* re.match(r"^[A-Z]{3}[0-9]{6,7}$", epic), case-sensitive
EpicFormatOk(epic) ==
    /\ Len(epic) \in 9..10
    /\ Letters3(epic, 1, FALSE)
    /\ DigitRun(epic, 4, 7) = Len(epic) - 3

\* the concatenation of pieces[i..j]
RECURSIVE Join(_, _, _)
Join(pieces, i, j) ==
    IF i > j THEN <<>>
    ELSE IF i = j THEN pieces[i]
    ELSE Join(pieces, i, (i + j) \div 2) \o Join(pieces, ((i + j) \div 2) + 1, j)

\* text.replace("  ", " "): of every run of spaces, each second one goes
CollapseBlanks_pairs(text) ==
    Join([i \in 1..Len(text) |->
            IF text[i] = " "
               /\ Cardinality({j \in 1..i - 1 : \A m \in j..i - 1 : text[m] = " "}) % 2 = 1
            THEN <<>> ELSE <<text[i]>>],
         1, Len(text))

\* re.sub(r"[ \t]+", " ", text): the first blank of a run becomes a space,
\* the others go
CollapseBlanks(text) ==
    Join([i \in 1..Len(text) |->
            IF text[i] \in {" ", "\t"}
            THEN (IF i > 1 /\ text[i - 1] \in {" ", "\t"} THEN <<>> ELSE <<" ">>)
            ELSE <<text[i]>>],
         1, Len(text))

\* re.sub(r"\n{3,}", "\n\n", text): the third and later line breaks of a
\* run go
CollapseNewlines(text) ==
    Join([i \in 1..Len(text) |->
            IF text[i] = "\n" /\ i > 2 /\ text[i - 1] = "\n" /\ text[i - 2] = "\n"
            THEN <<>> ELSE <<text[i]>>],
         1, Len(text))

\* VoterParser.clean_text
CleanText(text) == Strip(CollapseNewlines(CollapseBlanks(text)))

(* ------------------------------------------------------------------ *)
(* parse_ocr.py: VoterParser                                          *)
(* ------------------------------------------------------------------ *)
NameLabels == << <<W_NIRVACHAK, W_KA, W_NAAM>> >>

RelationLabels == << <<W_PATI, W_KA, W_NAAM>>, <<W_PITA, W_KA, W_NAAM>>, <<W_MATA, W_KA, W_NAAM>> >>

HouseLabels == << <<W_MAKAN, W_SANKHYA>> >>

GenderLabels == << <<W_LING>> >>

\* the keys of PATTERNS, in order
PatternKeys == <<"serial", "name", "relation", "house_no", "age", "gender", "epic">>

REQUIRED_FIELDS_noepic == <<"name", "age">>

REQUIRED_FIELDS == <<"name", "age", "epic">>

\* the fields required by parse_tile
RequiredOf_lenient(strict) == REQUIRED_FIELDS

RequiredOf(strict) == IF strict THEN PatternKeys ELSE REQUIRED_FIELDS

\* [field for field in required if not record.get(field)]
Missing(record, required) ==
    SelectSeq(required, LAMBDA field : record[field] = <<>>)

AgeInRange_exclusive(age) == age > 18 /\ age < 120

\* not (age < 18 or age > 120)
AgeInRange(age) == ~(age < 18 \/ age > 120)

\* int(record["age"]) succeeds: the string is a non-empty run of digits
IsInt(s) == Len(s) > 0 /\ \A k \in 1..Len(s) : IsDigit(s[k])

\* the age check of parse_tile and parse_record: passes when the age is
\* empty, or an integer in range
AgeCheck(age) == age = <<>> \/ (IsInt(age) /\ AgeInRange(ParseInt(age)))

\* parse_tile: accepted is FALSE where the code returns None; reason is the
\* diagnostic it prints ("short": the silent return for a short text)
ParseTile(ocr_text, tile_id, strict) ==
    LET text == CleanText(ocr_text)
        record == [tile_id |-> tile_id,
                   serial |-> ExtractField(SearchSerial(text)),
                   epic |-> ExtractField(SearchEpic(text)),
                   name |-> ExtractField(SearchLabelled(text, NameLabels)),
                   relation |-> ExtractField(SearchLabelled(text, RelationLabels)),
                   house_no |-> ExtractField(SearchLabelled(text, HouseLabels)),
                   age |-> ExtractField(SearchAge(text)),
                   gender |-> ExtractField(SearchLabelled(text, GenderLabels)),
                   raw_text_length |-> Len(text)]
    IN  IF Len(text) < MIN_TEXT_LEN
        THEN [accepted |-> FALSE, reason |-> "short", record |-> [tile_id |-> tile_id]]
        ELSE IF Missing(record, RequiredOf(strict)) # <<>>
        THEN [accepted |-> FALSE, reason |-> "missing", record |-> record]
        ELSE IF ~AgeCheck(record.age)
        THEN [accepted |-> FALSE, reason |-> "age", record |-> record]
        ELSE IF record.epic # <<>> /\ ~EpicFormatOk(record.epic) /\ strict
        THEN [accepted |-> FALSE, reason |-> "epic", record |-> record]
        ELSE [accepted |-> TRUE, reason |-> "ok", record |-> record]

\* ---- inputs of parse_tile: OCR text of a tile, line by line ----
Line(label, value) == label \o <<":", " ">> \o value \o <<"\n">>

NameLabelText == W_NIRVACHAK \o <<" ">> \o W_KA \o <<" ">> \o W_NAAM

RelationLabelText == W_PITA \o <<" ">> \o W_KA \o <<" ">> \o W_NAAM

HouseLabelText == W_MAKAN \o <<" ">> \o W_SANKHYA

SerialLines == {<<>>, <<"1", "2", "\n">>}

EpicLines ==
    {<<>>,
     <<"A", "B", "C", "1", "2", "3", "4", "5", "6", "7", "\n">>,
     <<"a", "b", "c", "1", "2", "3", "4", "5", "6", "\n">>,
     <<"A", "B", "1", "2", "3", "4", "5", "6", "\n">>}

NameLines == {<<>>, Line(NameLabelText, <<"R", "a", "m", " ", " ", "L", "a", "l">>)}

RelationLines == {<<>>, Line(RelationLabelText, <<"O", "m">>)}

HouseLines == {<<>>, Line(HouseLabelText, <<"H", "7">>)}

AgeValues ==
    {<<"1", "7">>, <<"1", "8">>, <<"1", "2", "0">>, <<"1", "2", "1">>, <<"1", "2", "3", "4">>}

\* the age with its label and a separator, or printed right after the label
AgeLines ==
    {<<>>} \cup {Line(W_UMR, a) : a \in AgeValues} \cup {W_UMR \o <<"4", "5", "\n", "\n", "\n">>}

GenderLines == {<<>>, Line(W_LING, <<"M">>), W_LING \o <<":", "\n">>}

TileTexts ==
    {s \o e \o n \o r \o h \o a \o g :
        s \in SerialLines, e \in EpicLines, n \in NameLines, r \in RelationLines,
        h \in HouseLines, a \in AgeLines, g \in GenderLines}

\* the state of the page pipelines, which the parser leaves alone
pageVars == <<pipeline, width, height, fail, has_tesserocr, ocr_engine, cpu_count, row, col,
              boxes, poolVars, csv_records, valid_count, out>>

\* parse_tile is called on the OCR text of a tile
CallParseTile ==
    /\ pipeline = "parser" /\ pc = "idle"
    /\ \E text \in TileTexts :
          tile_call' = [called |-> TRUE, text |-> text,
                        result |-> ParseTile(text, <<"t", "1">>, strict_mode)]
    /\ pc' = "tile_done"
    /\ UNCHANGED <<pageVars, strict_mode, stats, clean_call, page_id, status_files, idx,
                   page_records, last, dirVars>>

\* the number of characters of [A-Z0-9] (any case), at most n, from position p
RECURSIVE AlnumRun(_, _, _)
AlnumRun(text, p, n) ==
    IF n > 0 /\ p <= Len(text) /\ (text[p] \in UpperChars \cup LowerChars \/ IsDigit(text[p]))
    THEN 1 + AlnumRun(text, p + 1, n - 1) ELSE 0

\* \b([A-Z0-9]{6,12})\b at position i, under re.IGNORECASE
AlnumAt(text, i) ==
    LET lens == {d \in 6..12 : AlnumRun(text, i, d) = d /\ Boundary(text, i + d)}
    IN  IF Boundary(text, i) /\ lens # {}
        THEN [matched |-> TRUE, group |-> SubSeq(text, i, i + SetMax(lens) - 1)]
        ELSE NoMatch

SearchAlnum(text) ==
    LET hits == {i \in 1..Len(text) : AlnumAt(text, i).matched}
    IN  IF hits = {} THEN NoMatch ELSE AlnumAt(text, SetMin(hits))

\* a file of the OCR directory: absent (or unreadable), or its content
NoFile == [exists |-> FALSE, content |-> <<>>]

File(content) == [exists |-> TRUE, content |-> content]

\* open(...).read(), "" when the open fails
Read(file) == IF file.exists THEN file.content ELSE <<>>

\* the fields parse_record requires
RecordRequired == <<"name", "age", "serial">>

\* the fields parse_record extracts from the three text files of a record
ExtractRecord(files) ==
    LET serial_text == IF files.serial.exists THEN Strip(files.serial.content) ELSE <<>>
        epic_text == IF files.epic.exists THEN Strip(files.epic.content) ELSE <<>>
        hindi_text == Read(files.text)
    IN  [serial |-> ExtractField(SearchSerial(serial_text)),
         epic |-> ExtractField(SearchAlnum(epic_text)),
         name |-> ExtractField(SearchLabelled(hindi_text, NameLabels)),
         relation |-> ExtractField(SearchLabelled(hindi_text, RelationLabels)),
         house_no |-> ExtractField(SearchLabelled(hindi_text, HouseLabels)),
         age |-> ExtractField(SearchAge(hindi_text)),
         gender |-> ExtractField(SearchLabelled(hindi_text, GenderLabels)),
         raw_text_length |-> Len(hindi_text)]

\* ---- inputs of process_page: the files of a record ----
SerialFile == File(<<"1", "2", "\n">>)

EpicFile == File(<<"A", "B", "C", "1", "2", "3", "4", "5", "6", "7", "\n">>)

TextFile(age) == File(Line(NameLabelText, <<"R", "a", "m">>) \o Line(W_UMR, age))

RecordFileSets ==
    {[serial |-> SerialFile, epic |-> EpicFile, text |-> TextFile(a)] :
        a \in {<<"1", "7">>, <<"1", "8">>, <<"1", "2", "0">>, <<"1", "2", "1">>}}
    \cup {[serial |-> NoFile, epic |-> EpicFile, text |-> TextFile(<<"1", "8">>)],
          [serial |-> SerialFile, epic |-> NoFile, text |-> TextFile(<<"1", "8">>)],
          [serial |-> SerialFile, epic |-> EpicFile, text |-> NoFile],
          [serial |-> SerialFile, epic |-> EpicFile, text |-> File(Line(W_UMR, <<"4", "5">>))]}

\* the extraction, tabulated over the input file sets
Extracted == [files \in RecordFileSets |-> ExtractRecord(files)]

\* parse_record: accepted is FALSE where the code returns None; reason is
\* the diagnostic it prints
ParseRecord(record_id, files) ==
    LET record == [f \in DOMAIN Extracted[files] \cup {"record_id"} |->
                      IF f = "record_id" THEN record_id ELSE Extracted[files][f]]
    IN  IF Missing(record, RecordRequired) # <<>>
        THEN [accepted |-> FALSE, reason |-> "missing", record |-> record]
        ELSE IF ~AgeCheck(record.age)
        THEN [accepted |-> FALSE, reason |-> "age", record |-> record]
        ELSE [accepted |-> TRUE, reason |-> "ok", record |-> record]

VALID == <<"V", "A", "L", "I", "D">>

\* the status file of a record: absent stands for one that cannot be read
StatusFiles ==
    {File(VALID), File(VALID \o <<"\n">>), File(<<"I", "N">> \o VALID),
     File(<<"v", "a", "l", "i", "d">>), NoFile}

UNKNOWN == <<"U", "N", "K", "N", "O", "W", "N">>

ReadStatus_raw(file) == IF file.exists THEN file.content ELSE UNKNOWN

\* f.read().strip(), "UNKNOWN" when the file cannot be read
ReadStatus(file) == IF file.exists THEN Strip(file.content) ELSE UNKNOWN

\* status != "VALID"
ShouldSkip(status) == status # VALID

\* os.path.basename(status_file).replace(".status", "")
RecordIdOf(n) == <<"r", "e", "c", "o", "r", "d", "_">> \o Format02d(n)

\* sorted(glob(...)): the status files present, in ascending name order
RECURSIVE SortedSeq(_)
SortedSeq(S) == IF S = {} THEN <<>> ELSE <<SetMin(S)>> \o SortedSeq(S \ {SetMin(S)})

\* the names of the page directories
PageIds == {<<"p", "1", "0">>, <<"p", "2">>}

\* record["page_id"] = page_id
WithPage(record, id) ==
    [f \in DOMAIN record \cup {"page_id"} |-> IF f = "page_id" THEN id ELSE record[f]]

Bump_assign(st, counter) == [st EXCEPT ![counter] = 1]

\* self.stats[counter] += 1
Bump(st, counter) == [st EXCEPT ![counter] = @ + 1]

\* the parser is constructed, lenient or strict
InitParser ==
    /\ pipeline = "parser"
    /\ width = 0 /\ height = 0 /\ fail = NoFail /\ cpu_count = 1
    /\ has_tesserocr = FALSE /\ ocr_engine = "none"
    /\ pc = "idle"
    /\ PageAtStart
    /\ strict_mode \in BOOLEAN
    /\ stats = NewStats
    /\ tile_call = [called |-> FALSE]
    /\ clean_call = NoCleanCall
    /\ page_id = <<>>
    /\ status_files = <<>>
    /\ idx = 0
    /\ page_records = <<>>
    /\ last = [processed |-> FALSE]
    /\ page_dirs = <<>>
    /\ page_no = 0
    /\ all_records = <<>>

\* process_page starts: the status files of the page are listed and sorted
StartPage ==
    /\ pipeline = "parser" /\ pc = "idle"
    /\ page_id' \in PageIds
    /\ \E present \in SUBSET (0..MaxRecordId) : status_files' = SortedSeq(present)
    /\ page_records' = <<>>
    /\ idx' = 0
    /\ pc' = "page"
    /\ UNCHANGED <<pageVars, strict_mode, stats, tile_call, clean_call, last, dirVars>>

\* one iteration of the loop over the status files, the status file and
\* the OCR files of the record being drawn from sfs and filesets
StatusFileStep(sfs, filesets) ==
    /\ pipeline = "parser" /\ pc = "page" /\ idx < Len(status_files)
    /\ \E sf \in sfs, files \in filesets :
          LET record_id == RecordIdOf(status_files[idx + 1])
              status == ReadStatus(sf)
              parsed == ParseRecord(record_id, files)
              st1 == Bump(stats, "total_tiles")
          IN  IF ShouldSkip(status)
              THEN /\ stats' = Bump(st1, "skipped_tiles")
                   /\ UNCHANGED page_records
                   /\ last' = [processed |-> TRUE, record_id |-> record_id, status_file |-> sf,
                               files |-> files, parse_record_called |-> FALSE]
              ELSE /\ IF parsed.accepted
                      THEN /\ page_records' = Append(page_records, WithPage(parsed.record, page_id))
                           /\ stats' = Bump(st1, "valid_records")
                      ELSE /\ UNCHANGED page_records
                           /\ stats' = Bump(st1, "invalid_records")
                   /\ last' = [processed |-> TRUE, record_id |-> record_id, status_file |-> sf,
                               files |-> files, parse_record_called |-> TRUE,
                               result |-> parsed]
    /\ idx' = idx + 1
    /\ UNCHANGED <<pageVars, pc, strict_mode, tile_call, clean_call, page_id, status_files,
                   dirVars>>

ProcessStatusFile == StatusFileStep(StatusFiles, RecordFileSets)

\* process_page returns records
FinishPage ==
    /\ pipeline = "parser" /\ pc = "page" /\ idx = Len(status_files)
    /\ pc' = "page_done"
    /\ UNCHANGED <<pageVars, parserVars>>

NextParser ==
    \/ CallParseTile
    \/ StartPage
    \/ ProcessStatusFile
    \/ FinishPage

SpecParser == InitParser /\ [][NextParser]_vars

(* ------------------------------------------------------------------ *)
(* parse_ocr.py: VoterParser.process_directory                        *)
(* ------------------------------------------------------------------ *)
\* the characters of file names, in ascending code point order
CodeOrder ==
    DigitChars
        \o <<"A", "B", "C", "D", "E", "F", "G", "H", "I", "J", "K", "L", "M",
             "N", "O", "P", "Q", "R", "S", "T", "U", "V", "W", "X", "Y", "Z", "_">>
        \o <<"a", "b", "c", "d", "e", "f", "g", "h", "i", "j", "k", "l", "m",
             "n", "o", "p", "q", "r", "s", "t", "u", "v", "w", "x", "y", "z">>

Ord(c) == CHOOSE i \in 1..Len(CodeOrder) : CodeOrder[i] = c

\* a < b for str: at the first position where they differ a has ended or
\* holds the smaller code point
StrLess(a, b) ==
    \E k \in 1..Len(b) :
        /\ k <= Len(a) + 1
        /\ SubSeq(a, 1, k - 1) = SubSeq(b, 1, k - 1)
        /\ k = Len(a) + 1 \/ Ord(a[k]) < Ord(b[k])

\* os.listdir without sorted(): the names in some other order
RECURSIVE SortedNames_listdir(_)
SortedNames_listdir(S) ==
    IF S = {} THEN <<>>
    ELSE LET m == CHOOSE x \in S : \A y \in S \ {x} : StrLess(y, x)
         IN  <<m>> \o SortedNames_listdir(S \ {m})

\* sorted(names)
RECURSIVE SortedNames(_)
SortedNames(S) ==
    IF S = {} THEN <<>>
    ELSE LET m == CHOOSE x \in S : \A y \in S \ {x} : StrLess(x, y)
         IN  <<m>> \o SortedNames(S \ {m})

\* ---- inputs of process_directory: the status and OCR files of a record ----
DirStatusFiles == {File(VALID \o <<"\n">>), NoFile}

DirFileSets ==
    {[serial |-> SerialFile, epic |-> EpicFile, text |-> TextFile(a)] :
        a \in {<<"1", "7">>, <<"1", "8">>}}

\* process_directory starts: without the ocr directory it returns at once,
\* otherwise the page directories are listed and sorted
StartDirectory ==
    /\ pipeline = "parser" /\ pc = "idle"
    /\ \E base_exists \in BOOLEAN, present \in SUBSET PageIds :
          IF base_exists
          THEN page_dirs' = SortedNames(present) /\ pc' = "dir"
          ELSE page_dirs' = <<>> /\ pc' = "dir_done"
    /\ all_records' = <<>>
    /\ page_no' = 0
    /\ UNCHANGED <<pageVars, strict_mode, stats, tile_call, clean_call, page_id, status_files,
                   idx, page_records, last>>

\* the loop over page_dirs calls process_page on the next page directory
DirStartPage ==
    /\ pipeline = "parser" /\ pc = "dir" /\ page_no < Len(page_dirs)
    /\ page_id' = page_dirs[page_no + 1]
    /\ \E present \in SUBSET (0..MaxRecordId) :
          /\ stats.total_tiles + Cardinality(present) <= MaxDirFiles
          /\ status_files' = SortedSeq(present)
    /\ page_records' = <<>>
    /\ idx' = 0
    /\ pc' = "page"
    /\ UNCHANGED <<pageVars, strict_mode, stats, tile_call, clean_call, last, dirVars>>

DirProcessStatusFile == StatusFileStep(DirStatusFiles, DirFileSets)

\* all_records.extend(page_records)
DirExtend ==
    /\ pipeline = "parser" /\ pc = "page_done"
    /\ all_records' = all_records \o page_records
    /\ page_no' = page_no + 1
    /\ pc' = "dir"
    /\ UNCHANGED <<pageVars, strict_mode, stats, tile_call, clean_call, page_id, status_files,
                   idx, page_records, last, page_dirs>>

\* after the loop: the CSV is written, header and rows, only when there
\* are records
DirWrite ==
    /\ pipeline = "parser" /\ pc = "dir" /\ page_no = Len(page_dirs)
    /\ out' = IF all_records # <<>>
              THEN [written |-> TRUE, header |-> TRUE, rows |-> all_records]
              ELSE out
    /\ pc' = "dir_done"
    /\ UNCHANGED <<pipeline, width, height, fail, has_tesserocr, ocr_engine, cpu_count, row,
                   col, boxes, poolVars, csv_records, valid_count, parserVars>>

NextDirectory ==
    \/ StartDirectory
    \/ DirStartPage
    \/ DirProcessStatusFile
    \/ FinishPage
    \/ DirExtend
    \/ DirWrite

SpecDirectory == InitParser /\ [][NextDirectory]_vars

(* ------------------------------------------------------------------ *)
(* parse_ocr.py: clean_text and parse_tile applied to a text          *)
(* ------------------------------------------------------------------ *)
\* ---- inputs of clean_text: blanks, tabs, line breaks and a letter ----
CleanAlphabet == {" ", "\t", "\n", "a"}

\* the texts of n characters
RECURSIVE TextsOfLen(_)
TextsOfLen(n) ==
    IF n = 0 THEN {<<>>}
    ELSE {Append(t, c) : t \in TextsOfLen(n - 1), c \in CleanAlphabet}

CleanTexts == UNION {TextsOfLen(n) : n \in 0..MaxCleanLen}

\* a parser is constructed and a text is given
InitClean ==
    /\ pipeline = "parser"
    /\ width = 0 /\ height = 0 /\ fail = NoFail /\ cpu_count = 1
    /\ has_tesserocr = FALSE /\ ocr_engine = "none"
    /\ pc = "idle"
    /\ PageAtStart
    /\ strict_mode \in BOOLEAN
    /\ stats = NewStats
    /\ tile_call = [called |-> FALSE]
    /\ clean_call \in [text : CleanTexts \cup TileTexts, passes : {<<>>}, parsed : {<<>>}]
    /\ page_id = <<>>
    /\ status_files = <<>>
    /\ idx = 0
    /\ page_records = <<>>
    /\ last = [processed |-> FALSE]
    /\ page_dirs = <<>>
    /\ page_no = 0
    /\ all_records = <<>>

\* clean_text is applied to the text, then to its own result
ApplyCleanText ==
    /\ pipeline = "parser" /\ pc \in {"idle", "cleaned"}
    /\ clean_call' =
          [clean_call EXCEPT
              !.passes = Append(@, CleanText(IF @ = <<>> THEN clean_call.text ELSE @[Len(@)]))]
    /\ pc' = IF pc = "idle" THEN "cleaned" ELSE "recleaned"
    /\ UNCHANGED <<pageVars, strict_mode, stats, tile_call, page_id, status_files, idx,
                   page_records, last, dirVars>>

\* parse_tile is called on the text as given
ParseRawText ==
    /\ pipeline = "parser" /\ pc = "recleaned"
    /\ clean_call' =
          [clean_call EXCEPT
              !.parsed = <<ParseTile(clean_call.text, <<"t", "1">>, strict_mode)>>]
    /\ pc' = "parsed_raw"
    /\ UNCHANGED <<pageVars, strict_mode, stats, tile_call, page_id, status_files, idx,
                   page_records, last, dirVars>>

\* parse_tile is called on the cleaned text
ParseCleanedText ==
    /\ pipeline = "parser" /\ pc = "parsed_raw"
    /\ clean_call' =
          [clean_call EXCEPT
              !.parsed = Append(@, ParseTile(clean_call.passes[1], <<"t", "1">>, strict_mode))]
    /\ pc' = "parsed_clean"
    /\ UNCHANGED <<pageVars, strict_mode, stats, tile_call, page_id, status_files, idx,
                   page_records, last, dirVars>>

NextClean ==
    \/ ApplyCleanText
    \/ ParseRawText
    \/ ParseCleanedText

SpecClean == InitClean /\ [][NextClean]_vars

(* ------------------------------------------------------------------ *)
(* Claims about the page pipelines                                    *)
(* ------------------------------------------------------------------ *)
\* the two-digit, zero-padded decimal string of n < 100
TwoDigits(n) == <<DigitChars[(n \div 10) + 1], DigitChars[(n % 10) + 1]>>

\* the rectangle of grid position (r, c) on a full-size page
GridBox(r, c) == <<22 + c * 303, 42 + r * 126, 22 + c * 303 + 298, 42 + r * 126 + 121>>

\* two rectangles <<x0, y0, x1, y1>> share no pixel
Disjoint(a, b) == a[3] <= b[1] \/ b[3] <= a[1] \/ a[4] <= b[2] \/ b[4] <= a[2]

FullPage == width >= 22 + 2 * (298 + 5) + 298 /\ height >= 42 + 9 * (121 + 5) + 121

LoopDone == pc # "loop" \/ row = 10

\* C1: on a page at least as large as the full grid footprint, the
\* segmentation loop of either pipeline visits the tiles in row-major order
\* (30 of them once the loop is over), tile i has the rectangle
\* (x, y, x+298, y+121) with x = 22 + col*303 and y = 42 + row*126, the
\* rectangles are pairwise disjoint, and the record ids are the two-digit
\* zero-padded strings 00..29 without duplicates.
C1_FullPageGrid ==
    FullPage =>
        /\ Len(boxes) = (IF LoopDone THEN 30 ELSE row * 3 + col)
        /\ \A i \in 1..Len(boxes) :
              /\ boxes[i].row = (i - 1) \div 3
              /\ boxes[i].col = (i - 1) % 3
              /\ boxes[i].box = GridBox((i - 1) \div 3, (i - 1) % 3)
              /\ boxes[i].record_id = TwoDigits(i - 1)
        /\ \A i, j \in 1..Len(boxes) :
              i # j => /\ Disjoint(boxes[i].box, boxes[j].box)
                       /\ boxes[i].record_id # boxes[j].record_id
        /\ LoopDone => {boxes[i].record_id : i \in 1..Len(boxes)} = {TwoDigits(n) : n \in 0..29}

C1_Witness ==
    /\ FullPage /\ LoopDone /\ Len(boxes) = 30
    /\ boxes[30].record_id = <<"2", "9">>
    /\ boxes[30].box = <<628, 1176, 926, 1297>>

\* the tile at (r, c) was kept by the segmentation loop
Kept(r, c) == \E i \in 1..Len(boxes) : boxes[i].row = r /\ boxes[i].col = c

\* C2: on a page smaller than the full grid footprint a tile is omitted iff
\* x+298 > width or y+121 > height; every tile kept has the record id
\* row*3+col (no renumbering after a skip), and the row, col and rectangle
\* it has on a full-size page; every emitted row has
\* int(record_id) = row*3 + col, and record ids are unique within the page.
C2_SmallPageGrid ==
    ~FullPage =>
        /\ LoopDone =>
              \A r \in 0..9, c \in 0..2 :
                  Kept(r, c) <=> ~(22 + c * 303 + 298 > width \/ 42 + r * 126 + 121 > height)
        /\ \A i \in 1..Len(boxes) :
              /\ boxes[i].row \in 0..9 /\ boxes[i].col \in 0..2
              /\ boxes[i].record_id = TwoDigits(boxes[i].row * 3 + boxes[i].col)
              /\ boxes[i].box = GridBox(boxes[i].row, boxes[i].col)
        /\ \A i, j \in 1..Len(boxes) : i # j => boxes[i].record_id # boxes[j].record_id
        /\ \A i \in 1..Len(csv_records) :
              ParseInt(csv_records[i].record_id) = csv_records[i].row * 3 + csv_records[i].col
        /\ \A i, j \in 1..Len(csv_records) :
              i # j => csv_records[i].record_id # csv_records[j].record_id

\* a page of two columns and nine rows: column 2 and row 9 are omitted, and
\* the tile at (1, 0) keeps the id 03
C2_Witness ==
    /\ ~FullPage /\ pc = "done" /\ width = 925 /\ height = 1296
    /\ Len(boxes) = 18 /\ Len(csv_records) = 18
    /\ ~Kept(0, 2) /\ ~Kept(9, 0)
    /\ boxes[3].record_id = <<"0", "3">>
    /\ csv_records[3].record_id = <<"0", "3">>

\* the field of a row that holds the text of a region
Field(r, region) ==
    CASE region = "serial" -> r.serial
      [] region = "epic" -> r.epic
      [] OTHER -> r.raw_text

\* C3: in the worker-pool pipeline, whatever order the region tasks complete
\* in, every text delivered is filed under its own record id and region
\* type, the assembled rows are one per extracted record with serial, epic
\* and raw_text exactly the texts returned by the tasks of that record id
\* and of types serial, epic and text, and the rows are in ascending
\* record id order.
C3_AssemblyByKey ==
    pipeline = "pool" =>
        /\ \A res \in returned : Get(ocr_results, res.record_id, res.type) = res.text
        /\ pc = "done" /\ out.written =>
              /\ Len(csv_records) = Len(records)
              /\ out.rows = csv_records
              /\ \A i \in 1..Len(csv_records) :
                    /\ csv_records[i].record_id = records[i].record_id
                    /\ \A region \in RegionSet :
                          /\ \E res \in returned :
                                res.record_id = csv_records[i].record_id /\ res.type = region
                          /\ \A res \in returned :
                                res.record_id = csv_records[i].record_id /\ res.type = region
                                    => Field(csv_records[i], region) = res.text
              /\ \A i, j \in 1..Len(csv_records) :
                    i < j => ParseInt(csv_records[i].record_id) < ParseInt(csv_records[j].record_id)

\* two records were assembled after results arrived out of submission order
C3_Witness ==
    /\ pipeline = "pool" /\ pc = "done" /\ out_of_order
    /\ Len(csv_records) = 2
    /\ csv_records[1].serial = <<"1">> /\ csv_records[2].serial = <<"2">>
    /\ csv_records[1].raw_text # csv_records[2].raw_text

\* what the engine recognizes in a sub-region of tile n
Recognized(n, region) == Strip(EngineText(n, region))

RecognitionFailed == fail.kind \in {"raise", "rc"}

\* C4: when recognition of one sub-region of a tile fails, only that
\* region's text is empty in the emitted row: the other two sub-regions of
\* the tile keep their recognized text, and so do all other tiles.
C4_FailureIsPerRegion ==
    pc = "done" /\ RecognitionFailed =>
        \A i \in 1..Len(csv_records) : \A region \in RegionSet :
            Field(csv_records[i], region) =
                IF ParseInt(csv_records[i].record_id) = fail.tile /\ region = fail.region
                THEN <<>>
                ELSE Recognized(ParseInt(csv_records[i].record_id), region)

\* C5: both pipelines flag a row valid iff len(epic) >= 6 or len(text) >= 20.
C5_LenientValidity ==
    \A i \in 1..Len(csv_records) :
        csv_records[i].valid <=>
            (Len(csv_records[i].epic) >= 6 \/ Len(csv_records[i].raw_text) >= 20)

(* ------------------------------------------------------------------ *)
(* Claims about VoterParser                                           *)
(* ------------------------------------------------------------------ *)
\* parse_tile was called on a text of at least 20 cleaned characters
TileParsed == tile_call.called /\ Len(CleanText(tile_call.text)) >= 20

\* the age string is an integer in the closed range [18, 120]
AgeOk(age) ==
    /\ Len(age) > 0
    /\ \A k \in 1..Len(age) : IsDigit(age[k])
    /\ ParseInt(age) >= 18 /\ ParseInt(age) <= 120

\* 3 upper-case letters followed by 6 or 7 digits
CanonicalEpic(e) ==
    /\ Len(e) \in {9, 10}
    /\ \A k \in 1..3 : e[k] \in UpperChars
    /\ \A k \in 4..Len(e) : IsDigit(e[k])

\* piece occurs in text
Contains(text, piece) ==
    \E i \in 1..Len(text) :
        i + Len(piece) - 1 <= Len(text) /\ SubSeq(text, i, i + Len(piece) - 1) = piece

\* the tile has a name and an age in range but nothing the EPIC pattern matches
NoEpicTile ==
    /\ TileParsed
    /\ tile_call.result.record.name # <<>>
    /\ AgeOk(tile_call.result.record.age)
    /\ tile_call.result.record.epic = <<>>

\* C6 as stated: such a tile is accepted in lenient mode and rejected in
\* strict mode.
C6_Original == NoEpicTile => (tile_call.result.accepted <=> ~strict_mode)

\* C6, amended: a tile of at least 20 cleaned characters with a name and an
\* age in [18, 120] but no EPIC match is rejected in both modes, as missing
\* the required field epic.
C6_NoEpicRejected ==
    NoEpicTile => ~tile_call.result.accepted /\ tile_call.result.reason = "missing"

\* a lenient parser rejects a tile of more than 25 characters with name and age
C6_Witness ==
    /\ NoEpicTile /\ ~strict_mode
    /\ tile_call.result.record.raw_text_length >= 25
    /\ tile_call.result.record.age = <<"1", "8">>
    /\ ~Contains(tile_call.text, <<"A", "B", "1">>)
    /\ ~tile_call.result.accepted

\* the outcome of the age check on one parse result
AgeRule(result) ==
    /\ result.record.age # <<>> /\ ~AgeOk(result.record.age) => ~result.accepted
    /\ AgeOk(result.record.age) => result.reason # "age"
    /\ result.accepted /\ result.record.age # <<>> => AgeOk(result.record.age)

\* C7: in parse_tile (either mode) and in parse_record, a non-empty age that
\* is no integer, or is below 18 or above 120, rejects the record; the age
\* check never rejects an age in [18, 120]; and no record returned carries
\* an age outside [18, 120].
C7_AgeRange ==
    /\ TileParsed => AgeRule(tile_call.result)
    /\ last.processed /\ last.parse_record_called => AgeRule(last.result)
    /\ \A i \in 1..Len(page_records) : AgeOk(page_records[i].age)

\* page_records holds a record of age 18 and the record after it, of age
\* 121, was rejected by the age check
C7_Witness ==
    /\ Len(page_records) = 1 /\ page_records[1].age = <<"1", "8">>
    /\ last.processed /\ last.parse_record_called
    /\ last.result.record.age = <<"1", "2", "1">>
    /\ ~last.result.accepted /\ last.result.reason = "age"

\* the tile carries an EPIC-like code that is not of the canonical format
NonConformingEpicTile ==
    /\ TileParsed
    /\ \/ Contains(tile_call.text, <<"A", "B", "1", "2", "3", "4", "5", "6">>)
       \/ Contains(tile_call.text, <<"a", "b", "c", "1", "2", "3", "4", "5", "6">>)
    /\ tile_call.result.record.name # <<>>
    /\ AgeOk(tile_call.result.record.age)

\* C8 as stated: a non-conforming EPIC (2-letter or lower-case code) rejects
\* the tile only in strict mode; in lenient mode the tile is accepted.
C8_Original == NonConformingEpicTile => (tile_call.result.accepted <=> ~strict_mode)

\* C8, amended: an EPIC that is extracted but is not of the canonical format
\* (a lower-case code: extraction is case-insensitive, the format check is
\* not) rejects the tile only in strict mode, and in lenient mode the tile,
\* having a name and an age in range, is accepted; a code the extraction
\* pattern does not match (2 letters) leaves epic empty and the tile is
\* rejected in both modes.
C8_ExtractedEpicFormat ==
    TileParsed /\ tile_call.result.record.name # <<>> /\ AgeOk(tile_call.result.record.age) =>
        /\ tile_call.result.record.epic # <<>> /\ ~CanonicalEpic(tile_call.result.record.epic)
              => (tile_call.result.accepted <=> ~strict_mode)
        /\ tile_call.result.record.epic = <<>> => ~tile_call.result.accepted
        /\ strict_mode /\ tile_call.result.accepted => CanonicalEpic(tile_call.result.record.epic)

\* a lenient parser returns a record whose EPIC is the lower-case code
C8_Witness ==
    /\ TileParsed /\ ~strict_mode /\ tile_call.result.accepted
    /\ tile_call.result.record.epic = <<"a", "b", "c", "1", "2", "3", "4", "5", "6">>

\* C9: in strict mode parse_tile returns a record only if every one of the
\* seven patterns (serial, name, relation, house_no, age, gender, epic)
\* produced a non-empty value; one empty field rejects the tile.
C9_StrictAllFields ==
    tile_call.called /\ strict_mode =>
        /\ tile_call.result.accepted =>
              \A f \in {"serial", "name", "relation", "house_no", "age", "gender", "epic"} :
                  tile_call.result.record[f] # <<>>
        /\ TileParsed /\ (\E f \in {"serial", "name", "relation", "house_no", "age", "gender", "epic"} :
                              tile_call.result.record[f] = <<>>)
              => ~tile_call.result.accepted

\* a strict parser rejects a tile that lacks nothing but the serial
C9_Witness ==
    /\ TileParsed /\ strict_mode /\ ~tile_call.result.accepted
    /\ tile_call.result.record.serial = <<>>
    /\ \A f \in {"name", "relation", "house_no", "age", "gender", "epic"} :
          tile_call.result.record[f] # <<>>
    /\ AgeOk(tile_call.result.record.age)
    /\ CanonicalEpic(tile_call.result.record.epic)

\* the stripped content of the status file read last is exactly VALID
MarkedValid(l) ==
    l.status_file.exists /\ Strip(l.status_file.content) = <<"V", "A", "L", "I", "D">>

\* C10: for every status file, parse_record is invoked iff the stripped
\* status content is exactly VALID; any other (or unreadable) status adds
\* one to skipped_tiles, leaves valid_records and invalid_records unchanged
\* and contributes no output record.
C10_SkipUnlessValid ==
    [][pc = "page" /\ idx' = idx + 1 =>
          /\ last'.processed
          /\ last'.parse_record_called <=> MarkedValid(last')
          /\ ~MarkedValid(last') =>
                /\ stats'.skipped_tiles = stats.skipped_tiles + 1
                /\ stats'.valid_records = stats.valid_records
                /\ stats'.invalid_records = stats.invalid_records
                /\ page_records' = page_records
          /\ MarkedValid(last') => stats'.skipped_tiles = stats.skipped_tiles]_vars

\* records 00 and 02 marked VALID and parsed, record 01 skipped
C10_Witness ==
    /\ pc = "page_done" /\ status_files = <<0, 1, 2>>
    /\ Len(page_records) = 2
    /\ page_records[1].record_id = <<"r", "e", "c", "o", "r", "d", "_", "0", "0">>
    /\ page_records[2].record_id = <<"r", "e", "c", "o", "r", "d", "_", "0", "2">>
    /\ stats = [total_tiles |-> 3, valid_records |-> 2, invalid_records |-> 0, skipped_tiles |-> 1]

(* ------------------------------------------------------------------ *)
(* Claims about the output and the failures of the page pipelines     *)
(* ------------------------------------------------------------------ *)
\* C11: every run that reaches the output stage writes a file whose first
\* line is the header row, also when no record is emitted: the file is then
\* the header and an empty body.
C11_HeaderAlways == out.written => out.header

\* C12: when the recognition engine can be neither initialized nor invoked
\* (no engine binary, no language data), page processing fails at once and
\* emits no row, in both pipelines; the page never completes with rows of
\* empty text.
C12_MissingEngineIsFatal ==
    fail = MissingEngine => csv_records = <<>> /\ out.rows = <<>> /\ pc # "done"

\* the external recognizer of one region task of the pool pipeline exceeds
\* its timeout
TimedOut == pipeline = "pool" /\ fail.kind = "timeout"

\* the task of a returned result is the one that timed out
IsTimedOutTask(res) == ParseInt(res.record_id) = fail.tile /\ res.type = fail.region

\* C15: in ocr_region a recognition call that exceeds its timeout returns
\* what any other recognition failure returns, empty text and success False;
\* nothing propagates to process_page: every other region task returns its
\* recognized text, all tasks complete and the page is assembled with one
\* row per extracted record.
C15_TimeoutIsFailure ==
    TimedOut =>
        /\ \A res \in returned :
              IF IsTimedOutTask(res)
              THEN res.text = <<>> /\ res.success = FALSE
              ELSE res.text = Recognized(ParseInt(res.record_id), res.type) /\ res.success = TRUE
        /\ pc = "collect" => running # {} \/ next_task > Len(ocr_tasks)
        /\ pc = "done" =>
              /\ \A i \in 1..Len(ocr_tasks) :
                    \E res \in returned :
                        res.record_id = ocr_tasks[i].record_id /\ res.type = ocr_tasks[i].type
              /\ out.written /\ Len(out.rows) = Len(records) /\ Len(records) = Len(boxes)
              /\ \A i \in 1..Len(csv_records) : \A region \in RegionSet :
                    Field(csv_records[i], region) =
                        IF ParseInt(csv_records[i].record_id) = fail.tile /\ region = fail.region
                        THEN <<>>
                        ELSE Recognized(ParseInt(csv_records[i].record_id), region)

\* the text region of tile 00 timed out on a page of two tiles: both rows
\* are written, the first with empty text and its serial, the second whole
C15_Witness ==
    /\ TimedOut /\ pc = "done" /\ fail.tile = 0 /\ fail.region = "text"
    /\ Len(out.rows) = 2
    /\ out.rows[1].raw_text = <<>> /\ out.rows[1].serial = <<"1">>
    /\ Len(out.rows[2].raw_text) = 20
    /\ \E res \in returned : IsTimedOutTask(res) /\ res.text = <<>> /\ ~res.success

\* C16: in both pipelines every in-bounds tile of the page gets exactly one
\* row, also when cropping or saving one of its sub-regions fails, and every
\* row belongs to exactly one in-bounds tile.
C16_OneRowPerTile ==
    /\ pc = "done" => Len(csv_records) = Len(boxes)
    /\ \A i \in 1..Len(csv_records) :
          \E j \in 1..Len(boxes) :
              /\ boxes[j].record_id = csv_records[i].record_id
              /\ \A k \in 1..Len(csv_records) :
                    csv_records[k].record_id = csv_records[i].record_id => k = i

(* ------------------------------------------------------------------ *)
(* Claims about process_directory and the counters                    *)
(* ------------------------------------------------------------------ *)
\* record a comes before record b: a smaller page id, or the same page and
\* a smaller record id (the name of the status file up to its extension)
Before(a, b) ==
    \/ StrLess(a.page_id, b.page_id)
    \/ a.page_id = b.page_id /\ StrLess(a.record_id, b.record_id)

\* the records of seq come in ascending order
Ascending(seq) == \A i, j \in 1..Len(seq) : i < j => Before(seq[i], seq[j])

\* parse_record returned a record for the status file processed last
Returned(l) == l.processed /\ l.parse_record_called /\ l.result.accepted

\* C13: the record sequence of process_directory holds exactly the records
\* parse_record returned (a status file adds its record iff parse_record
\* returned one, and a finished page adds exactly its records), in
\* ascending order of page id and, within a page, of status file name; on
\* return valid_records is the length of the sequence.
C13_AcceptedInOrder ==
    [][/\ idx' = idx + 1 =>
             page_records' = IF Returned(last')
                             THEN Append(page_records,
                                         [f \in DOMAIN last'.result.record \cup {"page_id"} |->
                                             IF f = "page_id" THEN page_dirs[page_no + 1]
                                             ELSE last'.result.record[f]])
                             ELSE page_records
       /\ page_no' = page_no + 1 => all_records' = all_records \o page_records
       /\ page_no' = page_no /\ pc' # "dir" => all_records' = all_records
       /\ Ascending(all_records' \o (IF pc' = "page" THEN page_records' ELSE <<>>))
       /\ pc' = "dir_done" =>
             /\ stats'.valid_records = Len(all_records')
             /\ out'.written => out'.rows = all_records']_vars

\* two pages, p10 before p2: the first gave two records (00 and 02, 01
\* was not returned) and the second one
C13_Witness ==
    /\ pc = "dir_done" /\ page_dirs = << <<"p", "1", "0">>, <<"p", "2">> >>
    /\ Len(all_records) = 3 /\ out.rows = all_records
    /\ all_records[1].page_id = <<"p", "1", "0">>
    /\ all_records[1].record_id = <<"r", "e", "c", "o", "r", "d", "_", "0", "0">>
    /\ all_records[2].page_id = <<"p", "1", "0">>
    /\ all_records[2].record_id = <<"r", "e", "c", "o", "r", "d", "_", "0", "2">>
    /\ all_records[3].page_id = <<"p", "2">>
    /\ stats.valid_records = 3

\* the sum of the three outcome counters
Outcomes(st) == st.valid_records + st.invalid_records + st.skipped_tiles

\* C18: over any number of process_page calls on one parser, total_tiles =
\* valid_records + invalid_records + skipped_tiles, no counter decreases,
\* and each status file processed adds exactly one to total_tiles and
\* exactly one to exactly one of the three other counters; nothing else
\* changes a counter.
C18_CounterConservation ==
    [][/\ stats'.total_tiles = Outcomes(stats')
       /\ \A c \in DOMAIN stats : stats'[c] >= stats[c]
       /\ idx' = idx + 1 =>
             /\ stats'.total_tiles = stats.total_tiles + 1
             /\ Outcomes(stats') = Outcomes(stats) + 1
             /\ Cardinality({c \in DOMAIN stats : stats'[c] # stats[c]}) = 2
       /\ idx' # idx + 1 => stats' = stats]_vars

\* two pages processed by one parser: three status files, one of each outcome
C18_Witness ==
    /\ pc = "dir_done" /\ page_no = 2
    /\ stats = [total_tiles |-> 3, valid_records |-> 1, invalid_records |-> 1,
                skipped_tiles |-> 1]

(* ------------------------------------------------------------------ *)
(* Claims about text normalization                                    *)
(* ------------------------------------------------------------------ *)
\* C14: clean_text is idempotent, clean_text(clean_text(t)) = clean_text(t),
\* and parse_tile applied to clean_text(t) returns what parse_tile applied
\* to t returns: the same fields, raw_text_length and accept/reject outcome.
C14_CleanIdempotent ==
    /\ Len(clean_call.passes) = 2 => clean_call.passes[2] = clean_call.passes[1]
    /\ Len(clean_call.parsed) = 2 => clean_call.parsed[2] = clean_call.parsed[1]

\* a tile text with a double blank and a run of three line breaks, changed
\* by cleaning, gave a record both times
C14_Witness ==
    /\ Len(clean_call.passes) = 2 /\ Len(clean_call.parsed) = 2
    /\ Contains(clean_call.text, <<" ", " ">>)
    /\ Contains(clean_call.text, <<"\n", "\n", "\n">>)
    /\ Len(clean_call.passes[1]) < Len(clean_call.text) - 1
    /\ clean_call.parsed[1].accepted /\ clean_call.parsed[2].accepted
    /\ clean_call.parsed[2].record.raw_text_length = Len(clean_call.passes[1])

\* C17: normalization (runs of blanks to one blank, three or more line
\* breaks to two, trimmed ends) is applied to the text before every pattern
\* application: parse_tile reports the length of the normalized tile text,
\* and parse_record reports as raw_text_length the length of the normalized
\* text file and extracts what the patterns give on the normalized files.
C17_NormalizedBeforePatterns ==
    /\ tile_call.called /\ tile_call.result.reason # "short" =>
          tile_call.result.record.raw_text_length = Len(CleanText(tile_call.text))
    /\ last.processed /\ last.parse_record_called =>
          LET hindi_text == CleanText(Read(last.files.text))
          IN  /\ last.result.record.raw_text_length = Len(hindi_text)
              /\ last.result.record.name = ExtractField(SearchLabelled(hindi_text, NameLabels))
              /\ last.result.record.age = ExtractField(SearchAge(hindi_text))

====
